---- MODULE Spec2Model ----
(***************************************************************************)
(* Subdomain enumeration pipeline of backend/app.py:                       *)
(*   POST /api/recon/subdomains  (subdomain_finder_enhanced)               *)
(* candidate extraction, DNS verification over a thread pool, confidence   *)
(* scoring and the 24 hour JSON file cache.                                *)
(*                                                                         *)
(* Python strings are sequences of one-character strings.  Time is counted *)
(* in minutes.  A read of the cache file (json.load) and a write of it     *)
(* (json.dump) are each one step.                                          *)
(***************************************************************************)
EXTENDS Integers, Sequences, FiniteSets, TLC

\* ------------------------------------------------------------------------
\* Characters and strings
\* ------------------------------------------------------------------------

\* The lower-case letters a-z, in code point order
LowerAlphabet ==
    <<"a", "b", "c", "d", "e", "f", "g", "h", "i", "j", "k", "l", "m",
      "n", "o", "p", "q", "r", "s", "t", "u", "v", "w", "x", "y", "z">>

LowerLetters == {LowerAlphabet[i] : i \in 1..Len(LowerAlphabet)}
UpperLetters == {"A", "B", "W"}
Digits == {"0", "1", "9"}
Whitespace == {" ", "\n"}

\* str.lower() on one character
LowerChar(c) ==
    CASE c = "A" -> "a"
      [] c = "B" -> "b"
      [] c = "W" -> "w"
      [] OTHER -> c

\* ord() of the characters that occur in the model (ASCII code points)
Ord(c) ==
    CASE c = "\n" -> 10
      [] c = " " -> 32
      [] c = "*" -> 42
      [] c = "-" -> 45
      [] c = "." -> 46
      [] c = "/" -> 47
      [] c = "0" -> 48
      [] c = "1" -> 49
      [] c = "9" -> 57
      [] c = ":" -> 58
      [] c = "@" -> 64
      [] c = "A" -> 65
      [] c = "B" -> 66
      [] c = "W" -> 87
      [] OTHER -> 96 + CHOOSE i \in 1..Len(LowerAlphabet) : LowerAlphabet[i] = c

\* str.lower()
Lower(s) == [i \in 1..Len(s) |-> LowerChar(s[i])]

RECURSIVE LStripSet(_, _)
LStripSet(s, cs) ==
    IF s # <<>> /\ Head(s) \in cs THEN LStripSet(Tail(s), cs) ELSE s

RECURSIVE RStripSet(_, _)
RStripSet(s, cs) ==
    IF s # <<>> /\ s[Len(s)] \in cs
    THEN RStripSet(SubSeq(s, 1, Len(s) - 1), cs)
    ELSE s

\* str.strip()
Strip(s) == RStripSet(LStripSet(s, Whitespace), Whitespace)

\* str.rstrip(".")
RStripDots(s) == RStripSet(s, {"."})

\* str.startswith / str.endswith / substring test
StartsWith(s, p) == Len(s) >= Len(p) /\ SubSeq(s, 1, Len(p)) = p
EndsWith(s, p) ==
    Len(s) >= Len(p) /\ SubSeq(s, Len(s) - Len(p) + 1, Len(s)) = p
Contains(s, p) ==
    \E i \in 1..(Len(s) - Len(p) + 1) : SubSeq(s, i, i + Len(p) - 1) = p

\* str.split(sep) for a one-character separator: always at least one piece
RECURSIVE SplitAcc(_, _, _)
SplitAcc(s, sep, cur) ==
    IF s = <<>> THEN <<cur>>
    ELSE IF Head(s) = sep THEN <<cur>> \o SplitAcc(Tail(s), sep, <<>>)
    ELSE SplitAcc(Tail(s), sep, Append(cur, Head(s)))

Split(s, sep) == SplitAcc(s, sep, <<>>)

\* str.replace(pat, ""): leftmost non-overlapping occurrences removed
RECURSIVE Remove(_, _)
Remove(s, pat) ==
    IF s = <<>> THEN <<>>
    ELSE IF StartsWith(s, pat) THEN Remove(SubSeq(s, Len(pat) + 1, Len(s)), pat)
    ELSE <<Head(s)>> \o Remove(Tail(s), pat)

\* str.isdigit(): non-empty and all digits
IsDigit(s) == s # <<>> /\ \A i \in 1..Len(s) : s[i] \in Digits

\* Python's < on str: code point order, a proper prefix is smaller
RECURSIVE StrLess(_, _)
StrLess(s, t) ==
    IF t = <<>> THEN FALSE
    ELSE IF s = <<>> THEN TRUE
    ELSE IF Head(s) = Head(t) THEN StrLess(Tail(s), Tail(t))
    ELSE Ord(Head(s)) < Ord(Head(t))

StrLeq(s, t) == s = t \/ StrLess(s, t)

\* ------------------------------------------------------------------------
\* Hostname grammar (SAFE_HOSTNAME_RE / HOSTNAME_REGEX, re.IGNORECASE)
\* ------------------------------------------------------------------------

\* (?=.{1,253}$) and 1 + 61 + 1 characters of a label
MaxHostnameLen == 253
MaxLabelLen == 1 + 61 + 1

AlNum == LowerLetters \cup UpperLetters \cup Digits

\* [a-z0-9](?:[a-z0-9-]{0,61}[a-z0-9])?
IsLabel(l) ==
    /\ Len(l) >= 1
    /\ Len(l) <= MaxLabelLen
    /\ l[1] \in AlNum
    /\ l[Len(l)] \in AlNum
    /\ \A i \in 1..Len(l) : l[i] \in AlNum \cup {"-"}

\* re.match of the hostname pattern: "$" also matches just before one
\* trailing newline, "." in the lookahead matches no newline
HostnameMatch(s) ==
    LET t == IF s # <<>> /\ s[Len(s)] = "\n" THEN SubSeq(s, 1, Len(s) - 1) ELSE s
        labels == Split(t, ".")
    IN  /\ Len(t) >= 1
        /\ Len(t) <= MaxHostnameLen
        /\ \A i \in 1..Len(labels) : IsLabel(labels[i])

Https == <<"h", "t", "t", "p", "s", ":", "/", "/">>
Http == <<"h", "t", "t", "p", ":", "/", "/">>

\* The rejected value None
None == <<"None">>

\* A "domain" value of the request body that is not a string
NotAString == <<"NotAString">>

\* Same as sanitize_hostname, but the candidate is not matched against the pattern
sanitize_hostname_unchecked(value) ==
    IF value = <<>> THEN None
    ELSE LET c1 == Lower(Strip(value))
             c2 == Split(Remove(Remove(c1, Https), Http), "/")[1]
         IN  Split(c2, ":")[1]

\* sanitize_hostname(value): the hostname, or None
sanitize_hostname(value) ==
    IF value = <<>> THEN None
    ELSE LET c1 == Lower(Strip(value))
             c2 == Split(Remove(Remove(c1, Https), Http), "/")[1]
             candidate == Split(c2, ":")[1]
         IN  IF HostnameMatch(candidate) THEN candidate ELSE None

\* ------------------------------------------------------------------------
\* Candidate extractor (extract_and_clean_subdomains)
\* ------------------------------------------------------------------------

Star == <<"*", ".">>

\* The dict stored in cleaned_subdomains for a new host
NewSubdomainInfo(host_value, is_wildcard) ==
    [host |-> host_value, wildcard |-> is_wildcard, resolves |-> FALSE,
     records |-> <<>>, confidence |-> "medium"]

HostsOf(infos) == {infos[i].host : i \in 1..Len(infos)}

\* if host_value not in cleaned_subdomains: cleaned_subdomains[host_value] = {...}
\* (a dict keeps insertion order; it is kept as the sequence of its values)
CleanedInsert(cleaned, host_value, is_wildcard) ==
    IF host_value \in HostsOf(cleaned) THEN cleaned
    ELSE Append(cleaned, NewSubdomainInfo(host_value, is_wildcard))

\* Same as InScope, but a bare suffix match without the separating dot
InScopeNoDot(normalized_for_check, domain_lower) ==
    EndsWith(normalized_for_check, domain_lower)

\* normalized_for_check == domain_lower or normalized_for_check.endswith("." + domain_lower)
InScope(normalized_for_check, domain_lower) ==
    \/ normalized_for_check = domain_lower
    \/ EndsWith(normalized_for_check, <<".">> \o domain_lower)

\* line.lower().strip().rstrip(".")
NormalizeLine(line) == RStripDots(Strip(Lower(line)))

\* Same as RawAdd, but raw_candidates is a list: every occurrence is counted
RawAddList(raw_candidates, line) ==
    raw_candidates \cup {<<Cardinality(raw_candidates), line>>}

\* Same as RawAdd, but the line is counted in its normalized form
RawAddNormalized(raw_candidates, line) == raw_candidates \cup {NormalizeLine(line)}

\* raw_candidates.add(line) on a set
RawAdd(raw_candidates, line) == raw_candidates \cup {line}

\* One iteration of the inner loop, acc = [raw |-> raw_candidates, clean |-> cleaned_subdomains]
ProcessLine(acc, rawline, domain) ==
    LET line == Strip(rawline)
        acc1 == [acc EXCEPT !.raw = RawAdd(@, line)]
        normalized == NormalizeLine(line)
        is_wildcard == StartsWith(normalized, Star)
        host_value == normalized
        normalized_for_check ==
            IF is_wildcard THEN SubSeq(normalized, 3, Len(normalized)) ELSE normalized
    IN  IF line = <<>> THEN acc
        ELSE IF \/ Contains(line, <<" ">>)
                \/ Contains(line, <<"@">>)
                \/ Contains(line, <<" ", "-", " ">>) THEN acc1
        ELSE IF ~HostnameMatch(normalized_for_check) THEN acc1
        ELSE IF ~InScope(normalized_for_check, Lower(domain)) THEN acc1
        ELSE [acc1 EXCEPT !.clean = CleanedInsert(@, host_value, is_wildcard)]

RECURSIVE ProcessLines(_, _, _)
ProcessLines(acc, lines, domain) ==
    IF lines = <<>> THEN acc
    ELSE ProcessLines(ProcessLine(acc, Head(lines), domain), Tail(lines), domain)

\* An entry of the crt.sh array: shape "dict" carries name_value, "nokey" is a
\* dict without that key, "null" a dict whose name_value is null, "notdict"
\* any JSON value that is not an object
Entry(shape, name_value) == [shape |-> shape, name_value |-> name_value]

\* One iteration of the outer loop; acc.ok turns FALSE where Python raises
\* (entry.get on a non-dict, .strip() on None)
ProcessEntry(acc, entry, domain) ==
    IF entry.shape \in {"null", "notdict"} THEN [acc EXCEPT !.ok = FALSE]
    ELSE LET name_value == IF entry.shape = "nokey" THEN <<>> ELSE Strip(entry.name_value)
         IN  IF name_value = <<>> THEN acc
             ELSE ProcessLines(acc, Split(name_value, "\n"), domain)

RECURSIVE ProcessEntries(_, _, _)
ProcessEntries(acc, raw_data, domain) ==
    IF raw_data = <<>> \/ ~acc.ok THEN acc
    ELSE ProcessEntries(ProcessEntry(acc, Head(raw_data), domain), Tail(raw_data), domain)

\* Same as extract_and_clean_subdomains, but total_raw counts the crt.sh rows
extract_and_clean_subdomains_rows(raw_data, domain) ==
    LET acc == ProcessEntries([ok |-> TRUE, raw |-> {}, clean |-> <<>>], raw_data, domain)
    IN  [ok |-> acc.ok, total_raw |-> Len(raw_data), cleaned_subdomains |-> acc.clean]

\* extract_and_clean_subdomains(raw_data, domain):
\* [ok, total_raw, cleaned_subdomains]; ok = FALSE when an exception leaves it
extract_and_clean_subdomains(raw_data, domain) ==
    LET acc == ProcessEntries([ok |-> TRUE, raw |-> {}, clean |-> <<>>], raw_data, domain)
    IN  [ok |-> acc.ok, total_raw |-> Cardinality(acc.raw), cleaned_subdomains |-> acc.clean]

\* ------------------------------------------------------------------------
\* DNS verifier and confidence scorer
\* ------------------------------------------------------------------------

\* What the resolver does for one host: ctor = dns.resolver.Resolver() was
\* built, A/AAAA/CNAME = resolve() of that type returned instead of raising
Answers == [ctor : BOOLEAN, A : BOOLEAN, AAAA : BOOLEAN, CNAME : BOOLEAN]

InSeq(x, s) == \E i \in 1..Len(s) : s[i] = x

\* Same as TryRecord, but only the A branch sets resolves
TryRecordResolvesOnA(st, rtype, ans) ==
    IF ans[rtype]
    THEN [resolves |-> st.resolves \/ rtype = "A",
          records |-> IF InSeq(rtype, st.records) THEN st.records ELSE Append(st.records, rtype),
          queries |-> Append(st.queries, rtype)]
    ELSE [st EXCEPT !.queries = Append(@, rtype)]

\* try: resolver.resolve(hostname, rtype); append; resolves = True  except: pass
TryRecord(st, rtype, ans) ==
    IF ans[rtype]
    THEN [resolves |-> TRUE,
          records |-> IF InSeq(rtype, st.records) THEN st.records ELSE Append(st.records, rtype),
          queries |-> Append(st.queries, rtype)]
    ELSE [st EXCEPT !.queries = Append(@, rtype)]

\* Same as verify_dns, but without the wildcard short-circuit
verify_dns_no_skip(hostname, ans) ==
    LET s0 == [resolves |-> FALSE, records |-> <<>>, queries |-> <<>>]
    IN  IF ~ans.ctor THEN s0
        ELSE TryRecord(TryRecord(TryRecord(s0, "A", ans), "AAAA", ans), "CNAME", ans)

\* Same as verify_dns, but the wildcard test comes after the three queries
verify_dns_late_skip(hostname, ans) ==
    LET s0 == [resolves |-> FALSE, records |-> <<>>, queries |-> <<>>]
        s3 == IF ~ans.ctor THEN s0
              ELSE TryRecord(TryRecord(TryRecord(s0, "A", ans), "AAAA", ans), "CNAME", ans)
    IN  IF StartsWith(hostname, Star) THEN [s0 EXCEPT !.queries = s3.queries]
        ELSE s3

\* verify_dns(hostname): [resolves, records] and the queries it issued
verify_dns(hostname, ans) ==
    LET s0 == [resolves |-> FALSE, records |-> <<>>, queries |-> <<>>]
    IN  IF StartsWith(hostname, Star) THEN s0
        ELSE IF ~ans.ctor THEN s0
        ELSE TryRecord(TryRecord(TryRecord(s0, "A", ans), "AAAA", ans), "CNAME", ans)

\* Same as calculate_confidence, but the resolves test comes before the wildcard test
calculate_confidence_resolves_first(resolves, hostname) ==
    IF resolves THEN "high"
    ELSE IF StartsWith(hostname, Star) THEN "medium"
    ELSE IF IsDigit(Split(hostname, ".")[1]) THEN "low"
    ELSE "medium"

\* calculate_confidence(resolves, hostname)
calculate_confidence(resolves, hostname) ==
    IF StartsWith(hostname, Star) THEN "medium"
    ELSE IF resolves THEN "high"
    ELSE IF IsDigit(Split(hostname, ".")[1]) THEN "low"
    ELSE "medium"

\* verify_one(subdomain_info): the dict after the task has updated it
verify_one(subdomain_info, ans) ==
    LET r == verify_dns(subdomain_info.host, ans)
    IN  [subdomain_info EXCEPT
            !.resolves = r.resolves,
            !.records = r.records,
            !.confidence = calculate_confidence(r.resolves, subdomain_info.host)]

\* list.sort(key=lambda x: x["host"]): stable insertion into sorted order
RECURSIVE InsertSorted(_, _)
InsertSorted(sorted, x) ==
    IF sorted = <<>> THEN <<x>>
    ELSE IF StrLess(x.host, Head(sorted).host) THEN <<x>> \o sorted
    ELSE <<Head(sorted)>> \o InsertSorted(Tail(sorted), x)

RECURSIVE SortByHost(_)
SortByHost(l) ==
    IF l = <<>> THEN <<>>
    ELSE InsertSorted(SortByHost(SubSeq(l, 1, Len(l) - 1)), l[Len(l)])

\* ------------------------------------------------------------------------
\* Result cache (load_cache, save_cache, is_cache_valid)
\* ------------------------------------------------------------------------

CACHE_DURATION_HOURS == 24

\* A dict is a function; the empty dict
EmptyDict == [k \in {} |-> k]

\* d[k] = v
DictPut(d, k, v) == [x \in (DOMAIN d) \cup {k} |-> IF x = k THEN v ELSE d[x]]

\* A parsed JSON document: kind "dict" is an object with the members json,
\* "list" an array, "null" a null, number or boolean; in the file also
\* "invalid", a text json.load rejects
Dict(members) == [kind |-> "dict", json |-> members]
EmptyCache == Dict(EmptyDict)

\* A member of the cache document that is not itself an object
NotAnObject == [scalar |-> TRUE]
IsObject(v) == "scalar" \notin DOMAIN v

\* The cache file: absent until the first save, then a JSON text
AbsentFile == [exists |-> FALSE, kind |-> "dict", json |-> EmptyDict]

\* load_cache(): the parsed document; {} when the file does not exist or
\* json.load raises
load_cache(f) ==
    IF f.exists /\ f.kind # "invalid" THEN [kind |-> f.kind, json |-> f.json]
    ELSE EmptyCache

\* save_cache(cache_data): the file after json.dump
save_cache(cache_data) ==
    [exists |-> TRUE, kind |-> cache_data.kind, json |-> cache_data.json]

\* datetime.isoformat() of the instant t (minutes): date, hour and minute fields
isoformat(t) ==
    [day |-> t \div (24 * 60), hour |-> (t % (24 * 60)) \div 60, minute |-> t % 60]

\* datetime.fromisoformat(): the instant the fields denote
fromisoformat(ts) ==
    ts.day * 24 * 60 + ts.hour * 60 + ts.minute

\* fromisoformat accepts the value: a string in ISO format
IsIsoFormat(ts) == DOMAIN ts = {"day", "hour", "minute"}

\* Same as is_cache_valid, but the window is 24 minutes (timedelta(minutes=...))
is_cache_valid_minutes(timestamp_str, clock) ==
    /\ IsIsoFormat(timestamp_str)
    /\ clock - fromisoformat(timestamp_str) < CACHE_DURATION_HOURS

\* Same as is_cache_valid, but an entry of exactly 24 hours still counts
is_cache_valid_inclusive(timestamp_str, clock) ==
    /\ IsIsoFormat(timestamp_str)
    /\ clock - fromisoformat(timestamp_str) <= CACHE_DURATION_HOURS * 60

\* is_cache_valid(timestamp_str), evaluated when the clock shows `clock`;
\* False when fromisoformat raises
is_cache_valid(timestamp_str, clock) ==
    /\ IsIsoFormat(timestamp_str)
    /\ clock - fromisoformat(timestamp_str) < CACHE_DURATION_HOURS * 60

CachePrefix == <<"s", "u", "b", "d", "o", "m", "a", "i", "n", "s", "_">>

\* cache_key = f"subdomains_{domain}"
CacheKey(d) == CachePrefix \o d

\* ------------------------------------------------------------------------
\* Responses
\* ------------------------------------------------------------------------

\* A JSON body: the keys it has and the values of the report keys
Body(fields, d, total_raw, total_clean, subdomains) ==
    [fields |-> fields, domain |-> d, total_raw |-> total_raw,
     total_clean |-> total_clean, subdomains |-> subdomains]

ReportFields == {"domain", "total_raw", "total_clean", "subdomains"}

NoResponse == [status |-> 0, body |-> Body({}, <<>>, 0, 0, <<>>)]

\* jsonify({"error": ...}), code
ErrorResponse(code) == [status |-> code, body |-> Body({"error"}, <<>>, 0, 0, <<>>)]

\* Same as FetchErrorResponse, but the body is the bare {"error": ...}
FetchErrorResponseBare(d) == ErrorResponse(500)

\* The zeroed report returned when the crt.sh fetch fails
FetchErrorResponse(d) ==
    [status |-> 500, body |-> Body(ReportFields \cup {"error"}, d, 0, 0, <<>>)]

\* Same as ResponseData, but total_clean is given the other counter
ResponseDataRawCount(d, total_raw, verified) ==
    Body(ReportFields, d, total_raw, total_raw, verified)

\* response_data = {"domain", "total_raw", "total_clean": len(verified), "subdomains"}
ResponseData(d, total_raw, verified) ==
    Body(ReportFields, d, total_raw, Len(verified), verified)

\* ------------------------------------------------------------------------
\* Inputs
\* ------------------------------------------------------------------------

\* Request slots (threads of the server) that may run at the same time
Requests == {1, 2}

\* Values of the "domain" key of the request body ("" when it is missing)
DomainInputs == {<<"a", ".", "b">>, <<"c", ".", "d">>, <<" ", "A", ".", "B">>, <<>>}

\* crt.sh answers
PayloadMixed ==
    <<Entry("dict", <<"W", ".", "a", ".", "b", "\n", "*", ".", "a", ".", "b">>),
      Entry("dict", <<"c", ".", "d", ".">>)>>
PayloadNoisy ==
    <<Entry("dict", <<"1", ".", "a", ".", "b">>),
      Entry("dict", <<"x", " ", "y">>),
      Entry("dict", <<"x", "a", ".", "b">>),
      Entry("dict", <<"b", ".", "c", ".", "d", "\n", "a", ".", "c", ".", "d", "\n", "*", ".", "c", ".", "d">>)>>
PayloadWide ==
    <<Entry("dict", <<"x", ".", "a", ".", "b", "\n", "W", ".", "A", ".", "B", ".">>),
      Entry("dict", <<" ", "w", ".", "a", ".", "b">>),
      Entry("dict", <<"*", ".", "a", ".", "b", "\n", "\n", "0", ".", "a", ".", "b">>)>>
PayloadBadShape == <<Entry("nokey", <<>>), Entry("null", <<>>)>>

CtPayloads == {PayloadMixed, PayloadNoisy, PayloadWide, PayloadBadShape}

\* crt.sh answers of the specification with concurrent requests
PayloadSmall ==
    <<Entry("dict", <<"w", ".", "a", ".", "b">>),
      Entry("dict", <<"*", ".", "c", ".", "d">>)>>

CachePayloads == {PayloadSmall}

\* The scenario of the documentation: domain example.com and three crt.sh entries
ExampleDomain == <<"e", "x", "a", "m", "p", "l", "e", ".", "c", "o", "m">>
ExamplePayload ==
    <<Entry("dict", <<"w", "w", "w", ".", "e", "x", "a", "m", "p", "l", "e", ".", "c", "o", "m", "\n", "m", "a", "i", "l", ".", "e", "x", "a", "m", "p", "l", "e", ".", "c", "o", "m">>),
      Entry("dict", <<"b", "a", "d", " ", "e", "n", "t", "r", "y", " ", "w", "i", "t", "h", " ", "s", "p", "a", "c", "e">>),
      Entry("dict", <<"*", ".", "e", "x", "a", "m", "p", "l", "e", ".", "c", "o", "m">>)>>

\* Payloads and domains extract_and_clean_subdomains is called with directly
HarvestPayloads == {ExamplePayload, PayloadWide, PayloadMixed, PayloadBadShape}
HarvestDomains == {ExampleDomain, <<"a", ".", "b">>}

\* Longest payload the direct calls are made with
MaxEntries == 3

\* crt.sh answer of the specifications with failing parts: three candidates
\* for a.b, one of them a wildcard, and a line that is discarded
PayloadFaults ==
    <<Entry("dict", <<"x", ".", "a", ".", "b", "\n", "*", ".", "a", ".", "b">>),
      Entry("dict", <<"1", ".", "a", ".", "b">>),
      Entry("dict", <<"a", " ", "b">>)>>

\* "domain" values that must be refused: missing or empty, blank, and strings
\* that are no hostname
InvalidDomains ==
    {<<>>, <<" ">>, <<"a", " ", "b">>, <<"-", "a", ".", "b">>, <<"a", ".", ".", "b">>, <<"*", ".", "a", ".", "b">>, <<"a", ".", "b", "-">>}

\* "domain" values of the specifications with failing parts
FaultInputs ==
    InvalidDomains \cup {NotAString, <<"a", ".", "b">>, <<"h", "t", "t", "p", "s", ":", "/", "/", "A", ".", "B", ":", "1", "/", "x">>}

PipelineInputs == {<<"a", ".", "b">>, <<"c", ".", "d">>}

\* Resolver behaviours the specification with concurrent requests draws from
SomeAnswers ==
    {[ctor |-> TRUE, A |-> FALSE, AAAA |-> FALSE, CNAME |-> FALSE],
     [ctor |-> TRUE, A |-> TRUE, AAAA |-> FALSE, CNAME |-> TRUE]}

\* Resolver behaviours the single-request specification draws from
PipelineAnswers ==
    {[ctor |-> FALSE, A |-> TRUE, AAAA |-> TRUE, CNAME |-> TRUE],
     [ctor |-> TRUE, A |-> FALSE, AAAA |-> FALSE, CNAME |-> FALSE],
     [ctor |-> TRUE, A |-> TRUE, AAAA |-> FALSE, CNAME |-> FALSE],
     [ctor |-> TRUE, A |-> FALSE, AAAA |-> TRUE, CNAME |-> TRUE]}

\* Clock steps, in minutes: one minute, and one minute short of 24 hours
TickSteps == {1, 1439}

MaxTicks == 3
MaxServed == 2

\* ThreadPoolExecutor(max_workers=10); the width the model runs the pool with
max_workers == 2

\* ------------------------------------------------------------------------
\* State
\* ------------------------------------------------------------------------

VARIABLES
    file,                 \* cache/subdomain_cache.json
    now,                  \* datetime.now(), minutes
    ticks,                \* clock steps taken
    served,               \* requests received
    pc,                   \* per request: "idle", "fetch", "verify", "done"
    domain,               \* per request: local `domain`
    cache,                \* per request: local `cache` (the dict load_cache returned),
                          \* empty again once the handler has returned
    hit,                  \* per request: the cached entry was returned
    age,                  \* per request: datetime.now() - cached_time computed by
                          \* is_cache_valid, -1 while it has not been called
    total_raw,            \* per request: local `total_raw`
    subdomain_list,       \* per request: the subdomain_info dicts, in dict order
    future,               \* per request: state of the future of each dict
    yielded,              \* per request: futures as_completed has yielded
    verified_subdomains,  \* per request: local `verified_subdomains`
    response,             \* per request: what was returned
    fx,                   \* per request: the I/O it has done: cache reads, crt.sh
                          \* fetches, DNS queries, cache writes
    harvest,              \* direct calls of extract_and_clean_subdomains: the
                          \* arguments in hand and what the calls returned
    scored,               \* the last direct call of calculate_confidence
    wall,                 \* time.time(), seconds
    rate_limit_bucket,    \* _rate_limit_bucket: the bucket stored for the client key
    limiter,              \* per request: the locals of enforce_rate_limit
    verdicts,             \* what enforce_rate_limit decided, request by request
    ssl_cache,            \* _ssl_cache
    checker               \* ssl_check_robust: the locals of each request, the
                          \* number of responses returned and the last of them

vars == <<file, now, ticks, served, pc, domain, cache, hit, age, total_raw,
          subdomain_list, future, yielded, verified_subdomains, response, fx,
          harvest, scored, wall, rate_limit_bucket, limiter, verdicts, ssl_cache,
          checker>>

\* State of the rate limiter and of the SSL checker
sidevars == <<wall, rate_limit_bucket, limiter, verdicts, ssl_cache, checker>>

\* State of the server
servervars == <<file, now, ticks, served, pc, domain, cache, hit, age, total_raw,
                subdomain_list, future, yielded, verified_subdomains, response, fx>>

reqvars == <<pc, domain, cache, hit, age, total_raw, subdomain_list, future,
             yielded, verified_subdomains, response, fx>>

\* The file an earlier run of the server left behind: the report of a request
\* for a.b that was stored when the clock showed 0
EarlierReport ==
    ResponseData(<<"a", ".", "b">>, 1,
        <<verify_one(NewSubdomainInfo(<<"w", ".", "a", ".", "b">>, FALSE),
                     [ctor |-> TRUE, A |-> TRUE, AAAA |-> FALSE, CNAME |-> FALSE])>>)
EarlierFile ==
    save_cache(Dict(DictPut(EmptyDict, CacheKey(<<"a", ".", "b">>),
                            [timestamp |-> isoformat(0), data |-> EarlierReport])))

\* The cache file when the server starts: none yet, or the one left behind
InitialFiles == {AbsentFile, EarlierFile}

\* Cache files that are not what save_cache writes: a text that is no JSON, a
\* JSON array, a JSON null, and dicts whose member for a.b is no object, has
\* no timestamp, has a timestamp fromisoformat rejects, or is fresh but has
\* no data
InvalidFile == [exists |-> TRUE, kind |-> "invalid", json |-> EmptyDict]
ListFile == [exists |-> TRUE, kind |-> "list", json |-> EmptyDict]
NullFile == [exists |-> TRUE, kind |-> "null", json |-> EmptyDict]
FileWithMember(member) ==
    save_cache(Dict(DictPut(EmptyDict, CacheKey(<<"a", ".", "b">>), member)))
DamagedFiles ==
    {InvalidFile, ListFile, NullFile,
     FileWithMember(NotAnObject),
     FileWithMember([data |-> EarlierReport]),
     FileWithMember([timestamp |-> [text |-> "x"], data |-> EarlierReport]),
     FileWithMember([timestamp |-> isoformat(0)])}

\* _rate_limit_bucket has no bucket for the client key
NoBucket == [present |-> FALSE, count |-> 0, reset |-> 0]

\* enforce_rate_limit is not running for the request. While it runs, `own`
\* tells whether its local `bucket` is a dict of its own (count, reset) or the
\* very dict _rate_limit_bucket holds; tmp is the count read by `+= 1`
IdleLimiter ==
    [pc |-> "idle", now |-> 0, own |-> FALSE, count |-> 0, reset |-> 0, tmp |-> 0]

\* ssl_check_robust is not running for the request
IdleChecker == [pc |-> "idle", cache_key |-> <<>>, now |-> 0]

\* No direct call has been made
NoHarvest == [raw_data |-> <<>>, domain |-> <<>>, results |-> <<>>]
NoScore == [resolves |-> FALSE, hostname |-> <<>>, confidence |-> "none"]

NoFx == [reads |-> 0, fetches |-> 0, queries |-> <<>>, writes |-> 0]

\* The server before its first request, the cache file being one of `files`
InitWith(files) ==
    /\ file \in files
    /\ now = 0
    /\ ticks = 0
    /\ served = 0
    /\ pc = [r \in Requests |-> "idle"]
    /\ domain = [r \in Requests |-> <<>>]
    /\ cache = [r \in Requests |-> EmptyCache]
    /\ hit = [r \in Requests |-> FALSE]
    /\ age = [r \in Requests |-> -1]
    /\ total_raw = [r \in Requests |-> 0]
    /\ subdomain_list = [r \in Requests |-> <<>>]
    /\ future = [r \in Requests |-> <<>>]
    /\ yielded = [r \in Requests |-> {}]
    /\ verified_subdomains = [r \in Requests |-> <<>>]
    /\ response = [r \in Requests |-> NoResponse]
    /\ fx = [r \in Requests |-> NoFx]
    /\ wall = 0
    /\ rate_limit_bucket = NoBucket
    /\ limiter = [r \in Requests |-> IdleLimiter]
    /\ verdicts = <<>>
    /\ ssl_cache = EmptyDict
    /\ checker = [th |-> [r \in Requests |-> IdleChecker], answered |-> 0,
                  last |-> [slot |-> 0, status |-> 0]]

Init ==
    /\ InitWith(InitialFiles)
    /\ harvest = NoHarvest
    /\ scored = NoScore

\* ------------------------------------------------------------------------
\* The request handler subdomain_finder_enhanced, one action per blocking step
\* ------------------------------------------------------------------------

\* domain.replace("http://", "").replace("https://", "").split("/")[0].split(":")[0]
StripUrlParts(d) == Split(Split(Remove(Remove(d, Http), Https), "/")[1], ":")[1]

\* The locals of a request that has just been received
ResetLocals(r) ==
    /\ total_raw' = [total_raw EXCEPT ![r] = 0]
    /\ subdomain_list' = [subdomain_list EXCEPT ![r] = <<>>]
    /\ future' = [future EXCEPT ![r] = <<>>]
    /\ yielded' = [yielded EXCEPT ![r] = {}]
    /\ verified_subdomains' = [verified_subdomains EXCEPT ![r] = <<>>]

\* Lines 529-533 on the loaded document: "hit" returns cached_entry["data"],
\* "miss" goes on to crt.sh, "raise" is an exception (cache_key in a null or
\* number, .get on a member that is no object, a fresh entry without "data")
CacheCheck(c, key, clock) ==
    IF c.kind = "null" THEN "raise"
    ELSE IF c.kind = "list" THEN "miss"
    ELSE IF key \notin DOMAIN c.json THEN "miss"
    ELSE LET cached_entry == c.json[key]
         IN  IF ~IsObject(cached_entry) THEN "raise"
             ELSE IF ~("timestamp" \in DOMAIN cached_entry
                       /\ is_cache_valid(cached_entry.timestamp, clock)) THEN "miss"
             ELSE IF "data" \notin DOMAIN cached_entry THEN "raise"
             ELSE "hit"

\* now - cached_time as is_cache_valid computes it, -1 when it does not get there
CacheAge(c, key, clock) ==
    IF /\ c.kind = "dict"
       /\ key \in DOMAIN c.json
       /\ IsObject(c.json[key])
       /\ "timestamp" \in DOMAIN c.json[key]
       /\ IsIsoFormat(c.json[key].timestamp)
    THEN clock - fromisoformat(c.json[key].timestamp)
    ELSE -1

\* Lines 508-533: read and validate the domain, load the cache, return a fresh
\* entry; an exception on the way reaches the outer handler (lines 604-608)
Begin(r, value) ==
    /\ pc[r] \in {"idle", "done"}
    /\ served < MaxServed
    /\ served' = served + 1
    /\ ResetLocals(r)
    /\ LET d0 == Lower(Strip(value))
           sanitized_domain == sanitize_hostname(d0)
           d == StripUrlParts(sanitized_domain)
           loaded == load_cache(file)
           cache_key == CacheKey(d)
       IN  IF value = NotAString \/ d0 = <<>> \/ sanitized_domain = None
           THEN /\ pc' = [pc EXCEPT ![r] = "done"]
                /\ response' = [response EXCEPT ![r] =
                      IF value = NotAString THEN ErrorResponse(500) ELSE ErrorResponse(400)]
                /\ domain' = [domain EXCEPT ![r] = <<>>]
                /\ cache' = [cache EXCEPT ![r] = EmptyCache]
                /\ hit' = [hit EXCEPT ![r] = FALSE]
                /\ age' = [age EXCEPT ![r] = -1]
                /\ fx' = [fx EXCEPT ![r] = NoFx]
           ELSE /\ domain' = [domain EXCEPT ![r] = d]
                /\ fx' = [fx EXCEPT ![r] = [NoFx EXCEPT !.reads = 1]]
                /\ age' = [age EXCEPT ![r] = CacheAge(loaded, cache_key, now)]
                /\ CASE CacheCheck(loaded, cache_key, now) = "hit" ->
                          /\ pc' = [pc EXCEPT ![r] = "done"]
                          /\ cache' = [cache EXCEPT ![r] = EmptyCache]
                          /\ hit' = [hit EXCEPT ![r] = TRUE]
                          /\ response' = [response EXCEPT ![r] =
                                [status |-> 200, body |-> loaded.json[cache_key].data]]
                     [] CacheCheck(loaded, cache_key, now) = "raise" ->
                          /\ pc' = [pc EXCEPT ![r] = "done"]
                          /\ cache' = [cache EXCEPT ![r] = EmptyCache]
                          /\ hit' = [hit EXCEPT ![r] = FALSE]
                          /\ response' = [response EXCEPT ![r] = ErrorResponse(500)]
                     [] OTHER ->
                          /\ pc' = [pc EXCEPT ![r] = "fetch"]
                          /\ cache' = [cache EXCEPT ![r] = loaded]
                          /\ hit' = [hit EXCEPT ![r] = FALSE]
                          /\ response' = [response EXCEPT ![r] = NoResponse]
    /\ UNCHANGED <<sidevars, harvest, scored, file, now, ticks>>

\* Lines 539-551: requests.get / raise_for_status / resp.json() raised
FetchFail(r) ==
    /\ pc[r] = "fetch"
    /\ pc' = [pc EXCEPT ![r] = "done"]
    /\ fx' = [fx EXCEPT ![r].fetches = @ + 1]
    /\ response' = [response EXCEPT ![r] = FetchErrorResponse(domain[r])]
    /\ cache' = [cache EXCEPT ![r] = EmptyCache]
    /\ UNCHANGED <<sidevars, harvest, scored, file, now, ticks, served, domain, hit, age, total_raw,
                   subdomain_list, future, yielded, verified_subdomains>>

\* Lines 539-575: crt.sh answered raw_data; extract, then submit one task per dict.
\* An exception in the extraction reaches the outer handler (lines 604-608).
FetchOk(r, raw_data) ==
    /\ pc[r] = "fetch"
    /\ fx' = [fx EXCEPT ![r].fetches = @ + 1]
    /\ LET ex == extract_and_clean_subdomains(raw_data, domain[r])
       IN  IF ~ex.ok
           THEN /\ pc' = [pc EXCEPT ![r] = "done"]
                /\ response' = [response EXCEPT ![r] = ErrorResponse(500)]
                /\ cache' = [cache EXCEPT ![r] = EmptyCache]
                /\ UNCHANGED <<total_raw, subdomain_list, future>>
           ELSE /\ pc' = [pc EXCEPT ![r] = "verify"]
                /\ total_raw' = [total_raw EXCEPT ![r] = ex.total_raw]
                /\ subdomain_list' = [subdomain_list EXCEPT ![r] = ex.cleaned_subdomains]
                /\ future' = [future EXCEPT ![r] =
                      [i \in 1..Len(ex.cleaned_subdomains) |-> "pending"]]
                /\ UNCHANGED <<response, cache>>
    /\ UNCHANGED <<sidevars, harvest, scored, file, now, ticks, served, domain, hit, age, yielded,
                   verified_subdomains>>

Running(r) == {i \in 1..Len(future[r]) : future[r][i] = "running"}
Pending(r) == {i \in 1..Len(future[r]) : future[r][i] = "pending"}

\* Same as WorkerFree, but the pool starts a thread for every queued task
WorkerFreeUnbounded(r) == TRUE

\* Same as WorkerFree, but a pool thread is not reused once its task has ended
WorkerFreeNoReuse(r) ==
    Cardinality({i \in 1..Len(future[r]) : future[r][i] # "pending"}) < max_workers

\* The pool has fewer than max_workers threads busy
WorkerFree(r) == Cardinality(Running(r)) < max_workers

\* A pool thread takes the oldest queued work item and starts verify_one
StartTask(r) ==
    /\ pc[r] = "verify"
    /\ Pending(r) # {}
    /\ WorkerFree(r)
    /\ LET i == CHOOSE j \in Pending(r) : \A k \in Pending(r) : j <= k
       IN  future' = [future EXCEPT ![r][i] = "running"]
    /\ UNCHANGED <<sidevars, harvest, scored, file, now, ticks, served, pc, domain, cache, hit, age, total_raw,
                   subdomain_list, yielded, verified_subdomains, response, fx>>

\* Same as FinishTask, but a host none of whose queries succeeded makes the
\* task raise
FinishTaskRaisesOnFailure(r, i, ans) ==
    /\ pc[r] = "verify"
    /\ i \in Running(r)
    /\ LET res == verify_dns(subdomain_list[r][i].host, ans)
       IN  /\ IF res.queries # <<>> /\ ~res.resolves
              THEN /\ future' = [future EXCEPT ![r][i] = "failed"]
                   /\ UNCHANGED subdomain_list
              ELSE /\ future' = [future EXCEPT ![r][i] = "done"]
                   /\ subdomain_list' = [subdomain_list EXCEPT ![r][i] = verify_one(@, ans)]
           /\ fx' = [fx EXCEPT ![r].queries =
                        @ \o [k \in 1..Len(res.queries) |->
                               <<subdomain_list[r][i].host, res.queries[k]>>]]
    /\ UNCHANGED <<sidevars, harvest, scored, file, now, ticks, served, pc, domain, cache, hit, age,
                   total_raw, yielded, verified_subdomains, response>>

\* Lines 561-567: verify_one runs to its return on a pool thread
FinishTask(r, i, ans) ==
    /\ pc[r] = "verify"
    /\ i \in Running(r)
    /\ future' = [future EXCEPT ![r][i] = "done"]
    /\ subdomain_list' = [subdomain_list EXCEPT ![r][i] = verify_one(@, ans)]
    /\ fx' = [fx EXCEPT ![r].queries =
                 @ \o [k \in 1..Len(verify_dns(subdomain_list[r][i].host, ans).queries) |->
                        <<subdomain_list[r][i].host,
                          verify_dns(subdomain_list[r][i].host, ans).queries[k]>>]]
    /\ UNCHANGED <<sidevars, harvest, scored, file, now, ticks, served, pc, domain, cache, hit, age, total_raw,
                   yielded, verified_subdomains, response>>

\* Same as Yieldable, but as_completed yields a future as soon as its task
\* has started
YieldableStarted(r) ==
    {i \in 1..Len(future[r]) : future[r][i] \in {"running", "done"}} \ yielded[r]

\* Futures as_completed can yield next: finished and not yet yielded
Yieldable(r) == {i \in 1..Len(future[r]) : future[r][i] = "done"} \ yielded[r]

\* Lines 577-579: as_completed yields a finished future, its result is appended
Collect(r, i) ==
    /\ pc[r] = "verify"
    /\ i \in Yieldable(r)
    /\ yielded' = [yielded EXCEPT ![r] = @ \cup {i}]
    /\ verified_subdomains' = [verified_subdomains EXCEPT ![r] =
          Append(@, subdomain_list[r][i])]
    /\ UNCHANGED <<sidevars, harvest, scored, file, now, ticks, served, pc, domain, cache, hit, age, total_raw,
                   subdomain_list, future, response, fx>>

\* verify_one raises an exception verify_dns does not catch (before its first query)
TaskRaise(r, i) ==
    /\ pc[r] = "verify"
    /\ i \in Running(r)
    /\ future' = [future EXCEPT ![r][i] = "failed"]
    /\ UNCHANGED <<sidevars, harvest, scored, file, now, ticks, served, pc, domain, cache, hit, age,
                   total_raw, subdomain_list, yielded, verified_subdomains, response, fx>>

\* Futures whose task raised
Failed(r) == {i \in 1..Len(future[r]) : future[r][i] = "failed"}

\* Same as CollectFailure, but the exception of future.result() is not caught
\* in the loop and reaches the outer handler
CollectFailureAborts(r, i) ==
    /\ pc[r] = "verify"
    /\ i \in Failed(r) \ yielded[r]
    /\ pc' = [pc EXCEPT ![r] = "done"]
    /\ response' = [response EXCEPT ![r] = ErrorResponse(500)]
    /\ cache' = [cache EXCEPT ![r] = EmptyCache]
    /\ UNCHANGED <<sidevars, harvest, scored, file, now, ticks, served, domain, hit, age, total_raw,
                   subdomain_list, future, yielded, verified_subdomains, fx>>

\* Lines 577-581: as_completed yields a future whose task raised; future.result()
\* raises, the exception is logged and the loop goes on
CollectFailure(r, i) ==
    /\ pc[r] = "verify"
    /\ i \in Failed(r) \ yielded[r]
    /\ yielded' = [yielded EXCEPT ![r] = @ \cup {i}]
    /\ UNCHANGED <<sidevars, harvest, scored, file, now, ticks, served, pc, domain, cache, hit, age,
                   total_raw, subdomain_list, future, verified_subdomains, response, fx>>

\* Same as SortVerified, but the list is left in completion order
SortVerifiedSkip(l) == l

\* Same as SortVerified, but the key is "resolves": entries with the same key
\* stay in completion order
SortVerifiedByResolves(l) ==
    SelectSeq(l, LAMBDA x : x.resolves) \o SelectSeq(l, LAMBDA x : ~x.resolves)

\* verified_subdomains.sort(key=lambda x: x["host"])
SortVerified(l) == SortByHost(l)

\* Same as AllYielded, but the loop ends as soon as one future was yielded
AllYieldedEarly(r) == yielded[r] # {} \/ future[r] = <<>>

\* as_completed is exhausted: every submitted future has been yielded
AllYielded(r) == yielded[r] = 1..Len(future[r])

\* Same as CacheAfterStore, but an entry already in the dict is kept (setdefault)
CacheAfterStoreKeepFirst(r, entry) ==
    IF CacheKey(domain[r]) \in DOMAIN cache[r].json THEN cache[r]
    ELSE Dict(DictPut(cache[r].json, CacheKey(domain[r]), entry))

\* cache[cache_key] = {...} on the dict loaded at the start of the request
CacheAfterStore(r, entry) == Dict(DictPut(cache[r].json, CacheKey(domain[r]), entry))

\* Lines 583-602: sort, build the response, store it in the cache, return it;
\* cache[cache_key] = ... raises when the loaded document is not a dict
Finish(r) ==
    /\ pc[r] = "verify"
    /\ AllYielded(r)
    /\ LET sorted == SortVerified(verified_subdomains[r])
           response_data == ResponseData(domain[r], total_raw[r], sorted)
           entry == [timestamp |-> isoformat(now), data |-> response_data]
       IN  /\ verified_subdomains' = [verified_subdomains EXCEPT ![r] = sorted]
           /\ cache' = [cache EXCEPT ![r] = EmptyCache]
           /\ IF cache[r].kind = "dict"
              THEN /\ file' = save_cache(CacheAfterStore(r, entry))
                   /\ response' = [response EXCEPT ![r] =
                         [status |-> 200, body |-> response_data]]
                   /\ fx' = [fx EXCEPT ![r].writes = @ + 1]
              ELSE /\ response' = [response EXCEPT ![r] = ErrorResponse(500)]
                   /\ UNCHANGED <<file, fx>>
    /\ pc' = [pc EXCEPT ![r] = "done"]
    /\ UNCHANGED <<sidevars, harvest, scored, now, ticks, served, domain, hit, age, total_raw,
                   subdomain_list, future, yielded>>

\* Lines 583-602 when save_cache fails (lines 361-362): open() raised and the
\* file is as before, or json.dump raised and left a truncated text
FinishSaveFails(r, truncated) ==
    /\ pc[r] = "verify"
    /\ AllYielded(r)
    /\ cache[r].kind = "dict"
    /\ LET sorted == SortVerified(verified_subdomains[r])
           response_data == ResponseData(domain[r], total_raw[r], sorted)
       IN  /\ verified_subdomains' = [verified_subdomains EXCEPT ![r] = sorted]
           /\ response' = [response EXCEPT ![r] = [status |-> 200, body |-> response_data]]
    /\ file' = IF truncated THEN InvalidFile ELSE file
    /\ cache' = [cache EXCEPT ![r] = EmptyCache]
    /\ fx' = [fx EXCEPT ![r].writes = @ + 1]
    /\ pc' = [pc EXCEPT ![r] = "done"]
    /\ UNCHANGED <<sidevars, harvest, scored, now, ticks, served, domain, hit, age, total_raw,
                   subdomain_list, future, yielded>>

\* Time passes
Tick(d) ==
    /\ ticks < MaxTicks
    /\ ticks' = ticks + 1
    /\ now' = now + d
    /\ UNCHANGED <<sidevars, harvest, scored, file, served>>
    /\ UNCHANGED reqvars

\* One step of the system, for given request slots and input sets
Step(reqs, inputs, payloads, answers, steps) ==
    \/ \E r \in reqs, value \in inputs : Begin(r, value)
    \/ \E r \in reqs : FetchFail(r)
    \/ \E r \in reqs, raw_data \in payloads : FetchOk(r, raw_data)
    \/ \E r \in reqs : StartTask(r)
    \/ \E r \in reqs : \E i \in 1..Len(future[r]), ans \in answers : FinishTask(r, i, ans)
    \/ \E r \in reqs : \E i \in 1..Len(future[r]) : Collect(r, i)
    \/ \E r \in reqs : Finish(r)
    \/ \E d \in steps : Tick(d)

\* Concurrent requests against the shared cache file
Next == Step(Requests, DomainInputs, CachePayloads, SomeAnswers, TickSteps)

Spec == Init /\ [][Next]_vars

\* A request is received only while no other request is being handled
InFlight == {r \in Requests : pc[r] \in {"fetch", "verify"}}

NextSerial ==
    Step(Requests, IF InFlight = {} THEN DomainInputs ELSE {}, CachePayloads,
         SomeAnswers, TickSteps)

SpecSerial == Init /\ [][NextSerial]_vars

\* A single request, larger crt.sh answers
NextPipeline ==
    Step({1}, IF served = 0 THEN PipelineInputs ELSE {}, CtPayloads, PipelineAnswers, {1})

SpecPipeline == Init /\ [][NextPipeline]_vars

\* Verification tasks that raise
TaskFaults(reqs) ==
    \/ \E r \in reqs : \E i \in 1..Len(future[r]) : TaskRaise(r, i)
    \/ \E r \in reqs : \E i \in 1..Len(future[r]) : CollectFailure(r, i)

\* A single request, any domain value; crt.sh may fail, tasks may raise
NextFaults ==
    \/ Step({1}, IF served = 0 THEN FaultInputs ELSE {}, {PayloadFaults}, SomeAnswers, {1})
    \/ TaskFaults({1})

SpecFaults == Init /\ [][NextFaults]_vars

\* A single request, every behaviour of the resolver, no task raises
NextVerify ==
    Step({1}, IF served = 0 THEN FaultInputs ELSE {}, {PayloadFaults}, Answers, {1})

SpecVerify == Init /\ [][NextVerify]_vars

\* Requests one after the other on a cache file in any condition; saving may fail
InitCacheFaults ==
    /\ InitWith(InitialFiles \cup DamagedFiles)
    /\ harvest = NoHarvest
    /\ scored = NoScore

NextCacheFaults ==
    \/ Step({1}, PipelineInputs, CachePayloads, SomeAnswers, TickSteps)
    \/ \E truncated \in BOOLEAN : FinishSaveFails(1, truncated)

SpecCacheFaults == InitCacheFaults /\ [][NextCacheFaults]_vars

\* Two runs of the same request: both slots ask for a.b, crt.sh answers both
\* with the same payload, and the pool threads are scheduled freely
RunInputs == {<<"a", ".", "b">>}

InitRuns ==
    /\ InitWith({AbsentFile})
    /\ harvest = NoHarvest
    /\ scored = NoScore

NextRuns ==
    Step(Requests, IF served < Cardinality(Requests) THEN RunInputs ELSE {},
         {PayloadFaults}, SomeAnswers, {1})

SpecRuns == InitRuns /\ [][NextRuns]_vars

\* A single request under the scheduling the handler relies on: the crt.sh
\* call returns or raises within its timeout, a free pool thread takes the
\* oldest queued task, a running task ends (every resolver call is bounded by
\* its lifetime, or the task raises), as_completed yields a finished future,
\* and the handler thread goes on after the loop
NextLive ==
    \/ Step({1}, IF served = 0 THEN RunInputs ELSE {}, {PayloadFaults}, SomeAnswers, {1})
    \/ TaskFaults({1})

Fairness ==
    /\ WF_vars(FetchFail(1) \/ FetchOk(1, PayloadFaults))
    /\ WF_vars(StartTask(1))
    /\ WF_vars(\E i \in 1..Len(future[1]) :
                  \/ \E ans \in SomeAnswers : FinishTask(1, i, ans)
                  \/ TaskRaise(1, i))
    /\ WF_vars(\E i \in 1..Len(future[1]) : Collect(1, i) \/ CollectFailure(1, i))
    /\ WF_vars(Finish(1))

SpecLive == InitRuns /\ [][NextLive]_vars /\ Fairness

\* ------------------------------------------------------------------------
\* The before_request hook enforce_rate_limit, one action per access to the
\* shared dict; requests are handled on concurrent threads and nothing
\* serialises them
\* ------------------------------------------------------------------------

\* int(os.getenv("API_RATE_LIMIT", "120")) and
\* int(os.getenv("API_RATE_WINDOW_SECONDS", "60")); the model runs with both
\* set to 2
RATE_LIMIT == 2
RATE_WINDOW_SECONDS == 2

\* Seconds the wall clock advances, and requests the limiter sees
MaxWall == 3
MaxLimited == 4

ApiPrefix == <<"/", "a", "p", "i", "/">>
Paths == {<<"/", "a", "p", "i", "/", "x">>, <<"/", "x">>}

\* The dict the local `bucket` of request t refers to
BucketOf(t) ==
    IF limiter[t].own THEN [count |-> limiter[t].count, reset |-> limiter[t].reset]
    ELSE [count |-> rate_limit_bucket.count, reset |-> rate_limit_bucket.reset]

\* Requests inside enforce_rate_limit
Limiting == {t \in Requests : limiter[t].pc # "idle"}

\* Lines 160-173: a path outside /api/ is let through uncounted; otherwise
\* the bucket of the key is fetched (a new dict when there is none) and
\* replaced by a new dict when its reset time has passed
LimiterEnter(t, path) ==
    /\ limiter[t].pc = "idle"
    /\ Len(verdicts) + Cardinality(Limiting) < MaxLimited
    /\ IF ~StartsWith(path, ApiPrefix)
       THEN /\ verdicts' = Append(verdicts, [api |-> FALSE, now |-> wall, reset |-> wall, status |-> 200])
            /\ UNCHANGED limiter
       ELSE /\ LET fresh == ~rate_limit_bucket.present \/ wall > rate_limit_bucket.reset
              IN  limiter' = [limiter EXCEPT ![t] =
                     [pc |-> "loaded", now |-> wall, own |-> fresh, count |-> 0,
                      reset |-> IF fresh THEN wall + RATE_WINDOW_SECONDS ELSE 0, tmp |-> 0]]
            /\ UNCHANGED verdicts
    /\ UNCHANGED <<wall, rate_limit_bucket, ssl_cache, checker, harvest, scored, servervars>>

\* Line 175, bucket["count"] += 1: the count is read ...
LimiterRead(t) ==
    /\ limiter[t].pc = "loaded"
    /\ limiter' = [limiter EXCEPT ![t].pc = "read", ![t].tmp = BucketOf(t).count]
    /\ UNCHANGED <<wall, rate_limit_bucket, verdicts, ssl_cache, checker, harvest, scored, servervars>>

\* ... and the count plus one is written into the dict `bucket` refers to
LimiterWrite(t) ==
    /\ limiter[t].pc = "read"
    /\ IF limiter[t].own
       THEN /\ limiter' = [limiter EXCEPT ![t].pc = "written", ![t].count = limiter[t].tmp + 1]
            /\ UNCHANGED rate_limit_bucket
       ELSE /\ limiter' = [limiter EXCEPT ![t].pc = "written"]
            /\ rate_limit_bucket' = [rate_limit_bucket EXCEPT !.count = limiter[t].tmp + 1]
    /\ UNCHANGED <<wall, verdicts, ssl_cache, checker, harvest, scored, servervars>>

\* Line 176, _rate_limit_bucket[ip_key] = bucket: a dict of the request's own
\* replaces the stored one, which stays with the requests that still refer
\* to it
LimiterStore(t) ==
    /\ limiter[t].pc = "written"
    /\ IF limiter[t].own
       THEN /\ rate_limit_bucket' =
                  [present |-> TRUE, count |-> limiter[t].count, reset |-> limiter[t].reset]
            /\ limiter' = [u \in Requests |->
                  IF u = t THEN [limiter[t] EXCEPT !.pc = "stored", !.own = FALSE,
                                                   !.count = 0, !.reset = 0]
                  ELSE IF limiter[u].pc # "idle" /\ ~limiter[u].own
                       THEN [limiter[u] EXCEPT !.own = TRUE,
                                               !.count = rate_limit_bucket.count,
                                               !.reset = rate_limit_bucket.reset]
                       ELSE limiter[u]]
       ELSE /\ limiter' = [limiter EXCEPT ![t].pc = "stored"]
            /\ UNCHANGED rate_limit_bucket
    /\ UNCHANGED <<wall, verdicts, ssl_cache, checker, harvest, scored, servervars>>

\* Lines 177-185: 429 when the count of `bucket` exceeds RATE_LIMIT, otherwise
\* the request goes on to its handler
LimiterDecide(t) ==
    /\ limiter[t].pc = "stored"
    /\ verdicts' = Append(verdicts,
          [api |-> TRUE, now |-> limiter[t].now, reset |-> BucketOf(t).reset,
           status |-> IF BucketOf(t).count > RATE_LIMIT THEN 429 ELSE 200])
    /\ limiter' = [limiter EXCEPT ![t] = IdleLimiter]
    /\ UNCHANGED <<wall, rate_limit_bucket, ssl_cache, checker, harvest, scored, servervars>>

\* A second passes
WallTick ==
    /\ wall < MaxWall
    /\ wall' = wall + 1
    /\ UNCHANGED <<rate_limit_bucket, limiter, verdicts, ssl_cache, checker, harvest, scored,
                   servervars>>

NextLimiter ==
    \/ \E t \in Requests, path \in Paths : LimiterEnter(t, path)
    \/ \E t \in Requests : LimiterRead(t)
    \/ \E t \in Requests : LimiterWrite(t)
    \/ \E t \in Requests : LimiterStore(t)
    \/ \E t \in Requests : LimiterDecide(t)
    \/ WallTick

SpecLimiter == InitRuns /\ [][NextLimiter]_vars

\* ------------------------------------------------------------------------
\* The handler ssl_check_robust and its in-memory cache, one action per step
\* between which another request can run
\* ------------------------------------------------------------------------

\* _ssl_cache_ttl = 600 seconds; the model runs with 2
ssl_cache_ttl == 2

\* if len(_ssl_cache) > 100; the size the model runs the cache with
ssl_cache_max == 2

\* Requests the SSL checker sees, and seconds that pass meanwhile
MaxChecked == 4
MaxSslWall == 2

\* "host" values of the request body ("" when host and domain are missing)
\* and "port" values (443 when it is missing)
SslHostInputs ==
    {<<>>, <<"a", " ", "b">>, <<"a", ".", "b">>, <<" ", "A", ".", "B">>, <<"c", ".", "d">>,
     <<"a", ".", "b", ":", "9">>, <<"c", ".", "d", ":", "1", "9">>, <<"a", ".", "b", ":", "x">>}
SslPorts == {443}

\* int(text) for a text of digits; ok = FALSE where it raises ValueError
RECURSIVE DecimalValue(_, _)
DecimalValue(text, acc) ==
    IF text = <<>> THEN acc
    ELSE DecimalValue(Tail(text),
             10 * acc + (CASE Head(text) = "0" -> 0 [] Head(text) = "1" -> 1 [] OTHER -> 9))
ParseInt(text) ==
    IF IsDigit(text) THEN [ok |-> TRUE, value |-> DecimalValue(text, 0)]
    ELSE [ok |-> FALSE, value |-> 0]

\* host_input.rsplit(":", 1): the text before the last ":" and the text after it
RSplitColon(s) ==
    LET last == CHOOSE i \in 1..Len(s) : s[i] = ":" /\ \A k \in (i + 1)..Len(s) : s[k] # ":"
    IN  <<SubSeq(s, 1, last - 1), SubSeq(s, last + 1, Len(s))>>

\* Lines 925-947: [ok, host, port]; ok = FALSE where the handler returns 400
ParseTarget(host_value, port_value) ==
    LET host_input == Strip(host_value)
        colon == Contains(host_input, <<":">>)
        parts == IF colon THEN RSplitColon(host_input) ELSE <<host_input, <<>>>>
        port == IF colon THEN ParseInt(parts[2]) ELSE [ok |-> TRUE, value |-> port_value]
        host == sanitize_hostname(parts[1])
    IN  IF host_input = <<>> \/ ~port.ok \/ host = None
        THEN [ok |-> FALSE, host |-> <<>>, port |-> 0]
        ELSE [ok |-> TRUE, host |-> host, port |-> port.value]

\* cache_key = f"{host}:{port}"
SslCacheKey(host, port) == <<host, port>>

\* cache_key in _ssl_cache and now - cached_entry["timestamp"] < _ssl_cache_ttl
SslCacheFresh(c, cache_key, clock) ==
    cache_key \in DOMAIN c /\ clock - c[cache_key].timestamp < ssl_cache_ttl

\* Same as SslCacheFull, but one entry later
SslCacheFullLate(c) == Cardinality(DOMAIN c) > ssl_cache_max + 1

\* len(_ssl_cache) > 100
SslCacheFull(c) == Cardinality(DOMAIN c) > ssl_cache_max

\* Requests inside ssl_check_robust
Checking == {t \in Requests : checker.th[t].pc # "idle"}

\* Request t returns a response with the status
Answer(t, status) ==
    [checker EXCEPT !.th[t] = IdleChecker, !.answered = @ + 1,
                    !.last = [slot |-> t, status |-> status]]

\* Lines 925-956: parse and validate the target, return a fresh cached result
SslBegin(t, host_value, port_value) ==
    /\ checker.th[t].pc = "idle"
    /\ checker.answered + Cardinality(Checking) < MaxChecked
    /\ LET target == ParseTarget(host_value, port_value)
           cache_key == SslCacheKey(target.host, target.port)
       IN  checker' =
              IF ~target.ok THEN Answer(t, 400)
              ELSE IF SslCacheFresh(ssl_cache, cache_key, wall) THEN Answer(t, 200)
              ELSE [checker EXCEPT !.th[t] =
                       [pc |-> "connect", cache_key |-> cache_key, now |-> wall]]
    /\ UNCHANGED <<wall, rate_limit_bucket, limiter, verdicts, ssl_cache, harvest, scored,
                   servervars>>

\* Lines 979-1042 raised: timeout (504), DNS failure (400), handshake or any
\* other error (422); nothing is stored
SslFail(t, status) ==
    /\ checker.th[t].pc = "connect"
    /\ checker' = Answer(t, status)
    /\ UNCHANGED <<wall, rate_limit_bucket, limiter, verdicts, ssl_cache, harvest, scored,
                   servervars>>

\* Lines 979-1048: the certificate was fetched and parsed; the result is stored
SslStore(t) ==
    /\ checker.th[t].pc = "connect"
    /\ ssl_cache' = DictPut(ssl_cache, checker.th[t].cache_key,
          [timestamp |-> checker.th[t].now,
           data |-> [domain |-> checker.th[t].cache_key[1],
                     port |-> checker.th[t].cache_key[2]]])
    /\ checker' = [checker EXCEPT !.th[t].pc = "stored"]
    /\ UNCHANGED <<wall, rate_limit_bucket, limiter, verdicts, harvest, scored, servervars>>

\* Lines 1050-1055: the cache is emptied when it holds more than the maximum,
\* and the result is returned
SslClean(t) ==
    /\ checker.th[t].pc = "stored"
    /\ ssl_cache' = IF SslCacheFull(ssl_cache) THEN EmptyDict ELSE ssl_cache
    /\ checker' = Answer(t, 200)
    /\ UNCHANGED <<wall, rate_limit_bucket, limiter, verdicts, harvest, scored, servervars>>

\* A second passes while the SSL checker is observed
SslTick == wall < MaxSslWall /\ WallTick

NextSsl ==
    \/ \E t \in Requests, host_value \in SslHostInputs, port_value \in SslPorts :
          SslBegin(t, host_value, port_value)
    \/ \E t \in Requests, status \in {504, 400, 422} : SslFail(t, status)
    \/ \E t \in Requests : SslStore(t)
    \/ \E t \in Requests : SslClean(t)
    \/ SslTick

SpecSsl == InitRuns /\ [][NextSsl]_vars

\* ------------------------------------------------------------------------
\* Direct calls of the pure functions
\* ------------------------------------------------------------------------

\* "\n".join(lines)
RECURSIVE Join(_, _)
Join(lines, sep) ==
    IF lines = <<>> THEN <<>>
    ELSE IF Len(lines) = 1 THEN Head(lines)
    ELSE Head(lines) \o <<sep>> \o Join(Tail(lines), sep)

\* The sequence with the elements at i and i + 1 exchanged
SwapAdjacent(seq, i) ==
    [k \in 1..Len(seq) |-> IF k = i THEN seq[i + 1] ELSE IF k = i + 1 THEN seq[i] ELSE seq[k]]

\* extract_and_clean_subdomains(raw_data, domain) is called with the arguments
\* in hand; the first result and the latest one are kept
Extract ==
    /\ LET out == extract_and_clean_subdomains(harvest.raw_data, harvest.domain)
       IN  harvest' = [harvest EXCEPT !.results =
                          IF Len(@) < 2 THEN Append(@, out) ELSE <<@[1], out>>]
    /\ UNCHANGED <<scored, servervars, sidevars>>

\* crt.sh returns the same entries in another order
SwapEntries(i) ==
    /\ i \in 1..(Len(harvest.raw_data) - 1)
    /\ harvest.raw_data[i] # harvest.raw_data[i + 1]
    /\ harvest' = [harvest EXCEPT !.raw_data = SwapAdjacent(@, i)]
    /\ UNCHANGED <<scored, servervars, sidevars>>

\* crt.sh returns the lines of an entry's name_value in another order
SwapLines(i, k) ==
    /\ i \in 1..Len(harvest.raw_data)
    /\ harvest.raw_data[i].shape = "dict"
    /\ LET lines == Split(harvest.raw_data[i].name_value, "\n")
       IN  /\ k \in 1..(Len(lines) - 1)
           /\ lines[k] # lines[k + 1]
           /\ harvest' = [harvest EXCEPT !.raw_data[i].name_value =
                             Join(SwapAdjacent(lines, k), "\n")]
    /\ UNCHANGED <<scored, servervars, sidevars>>

\* crt.sh returns one of the entries once more
RepeatEntry(i) ==
    /\ i \in 1..Len(harvest.raw_data)
    /\ Len(harvest.raw_data) < MaxEntries
    /\ harvest' = [harvest EXCEPT !.raw_data = Append(@, @[i])]
    /\ UNCHANGED <<scored, servervars, sidevars>>

InitExtract ==
    /\ InitWith({AbsentFile})
    /\ harvest \in {[raw_data |-> p, domain |-> d, results |-> <<>>] :
                       p \in HarvestPayloads, d \in HarvestDomains}
    /\ scored = NoScore

NextExtract ==
    \/ Extract
    \/ \E i \in 1..MaxEntries : SwapEntries(i)
    \/ \E i \in 1..MaxEntries : \E k \in 1..MaxEntries : SwapLines(i, k)
    \/ \E i \in 1..MaxEntries : RepeatEntry(i)

SpecExtract == InitExtract /\ [][NextExtract]_vars

\* Hostnames calculate_confidence is called with directly
ScoreFirstLabels ==
    {<<>>, <<"0">>, <<"1", "9">>, <<"1", "a">>, <<"a", "1">>, <<"w">>,
     <<"w", "w", "w">>, <<"1", "-", "9">>, <<"-">>, <<"1", "0">>}
ScoreTails == {<<>>, <<".", "a", ".", "b">>, <<".", "1">>, <<".", "1", ".", "a", ".", "b">>}
ScoreHosts ==
    {pre \o first \o tail : pre \in {<<>>, Star}, first \in ScoreFirstLabels, tail \in ScoreTails}

\* calculate_confidence(resolves, hostname) is called
Score(resolves, hostname) ==
    /\ scored' = [resolves |-> resolves, hostname |-> hostname,
                  confidence |-> calculate_confidence(resolves, hostname)]
    /\ UNCHANGED <<harvest, servervars, sidevars>>

InitScorer ==
    /\ InitWith({AbsentFile})
    /\ harvest = NoHarvest
    /\ scored = NoScore

NextScorer == \E resolves \in BOOLEAN, hostname \in ScoreHosts : Score(resolves, hostname)

SpecScorer == InitScorer /\ [][NextScorer]_vars

\* ------------------------------------------------------------------------
\* Properties
\* ------------------------------------------------------------------------

\* Requests that returned a report built by the pipeline in this request
Built(r) == pc[r] = "done" /\ response[r].status = 200 /\ ~hit[r]

\* Every report the pipeline has returned or stored
Reports ==
    {response[r].body : r \in {q \in Requests : response[q].status = 200}}
        \cup {file.json[k].data : k \in DOMAIN file.json}

IsWildcardHost(h) == StartsWith(h, Star)

\* C1 (wildcard invariant): in every report, an entry whose host starts with
\* "*." has resolves = false, confidence = "medium" and no records, whatever
\* the resolver answers.
C1_WildcardInvariant ==
    \A rep \in Reports : \A i \in 1..Len(rep.subdomains) :
        IsWildcardHost(rep.subdomains[i].host) =>
            /\ rep.subdomains[i].resolves = FALSE
            /\ rep.subdomains[i].confidence = "medium"
            /\ rep.subdomains[i].records = <<>>

\* A built report with a wildcard entry next to an entry the resolver answered for
C1_Witness ==
    \E r \in Requests :
        /\ Built(r)
        /\ \E i, j \in 1..Len(response[r].body.subdomains) :
              /\ IsWildcardHost(response[r].body.subdomains[i].host)
              /\ response[r].body.subdomains[j].resolves

\* C2 (subdomain containment): every host of a returned report equals the
\* queried domain or ends with "." + domain, the "*." of a wildcard counted
\* as part of the host.
C2_Containment ==
    \A r \in Requests : response[r].status = 200 =>
        \A i \in 1..Len(response[r].body.subdomains) :
            LET h == response[r].body.subdomains[i].host
            IN  h = domain[r] \/ EndsWith(h, <<".">> \o domain[r])

\* A built report that kept a wildcard host and the bare domain and dropped raw lines
C2_Witness ==
    \E r \in Requests :
        /\ Built(r)
        /\ response[r].body.total_raw > response[r].body.total_clean
        /\ \E i \in 1..Len(response[r].body.subdomains) :
              IsWildcardHost(response[r].body.subdomains[i].host)

\* C3 (fan-out completeness): a built report has exactly one entry per
\* submitted candidate: none missing, none twice, for every completion order.
C3_FanOutComplete ==
    \A r \in Requests : Built(r) =>
        LET subs == response[r].body.subdomains
        IN  /\ Len(subs) = Len(subdomain_list[r])
            /\ \A i \in 1..Len(subdomain_list[r]) :
                  Cardinality({j \in 1..Len(subs) : subs[j] = subdomain_list[r][i]}) = 1
            /\ Cardinality(HostsOf(subs)) = Len(subs)

\* A built report for more candidates than the pool has workers
C3_Witness ==
    \E r \in Requests :
        /\ Built(r)
        /\ Len(subdomain_list[r]) > max_workers
        /\ Len(response[r].body.subdomains) = Len(subdomain_list[r])

\* C4 (bounded concurrency): never more than max_workers verification tasks
\* of a request are running, and there is exactly one task per candidate.
C4_BoundedConcurrency ==
    \A r \in Requests :
        /\ Cardinality(Running(r)) <= max_workers
        /\ Len(future[r]) = Len(subdomain_list[r])

\* The pool is saturated while a task is still queued
C4_Witness ==
    \E r \in Requests :
        /\ Cardinality(Running(r)) = max_workers
        /\ Pending(r) # {}

\* C5 (sorted output): the subdomains of every report are non-decreasing by
\* host, compared case-insensitively.
C5_SortedOutput ==
    \A rep \in Reports : \A i \in 1..(Len(rep.subdomains) - 1) :
        StrLeq(Lower(rep.subdomains[i].host), Lower(rep.subdomains[i + 1].host))

\* A built report of three or more hosts whose extraction order was not sorted
C5_Witness ==
    \E r \in Requests :
        /\ Built(r)
        /\ Len(response[r].body.subdomains) >= 3
        /\ response[r].body.subdomains # subdomain_list[r]

\* The step in which request r stores its report and returns it (Finish)
StoresReport(r) == pc[r] = "verify" /\ pc'[r] = "done"

\* The step is request r being received with a well-formed domain
Received(r) ==
    /\ served' = served + 1
    /\ response'[r].status # 400
    /\ \E value \in DomainInputs : Begin(r, value)

\* The cache file holds an entry for the key
InFile(key) == file.exists /\ key \in DOMAIN file.json

\* C6 (requests for different domains do not conflict): whenever two requests
\* for different domains have both missed the cache and both completed, the
\* cache file holds the entry each of them wrote.
C6_DifferentDomainsNoConflict ==
    \A r1, r2 \in Requests :
        (r1 # r2 /\ Built(r1) /\ Built(r2) /\ domain[r1] # domain[r2]) =>
            /\ InFile(CacheKey(domain[r1]))
            /\ InFile(CacheKey(domain[r2]))
            /\ file.json[CacheKey(domain[r1])].data = response[r1].body
            /\ file.json[CacheKey(domain[r2])].data = response[r2].body

\* C7 (same-domain concurrency): every request that completes the pipeline
\* overwrites the entry of its domain with its own report and the current
\* timestamp, whatever the entry was; so after two overlapping requests for
\* one domain the entry is that of the one that wrote last.
C7_LastWriteWins ==
    [][\A r \in Requests : StoresReport(r) =>
          /\ InFile(CacheKey(domain[r]))'
          /\ file'.json[CacheKey(domain[r])] =
                [timestamp |-> isoformat(now), data |-> response'[r].body]]_vars

\* Two requests for one domain both found no entry, both ran the pipeline to
\* the end with different reports, and the file holds the report of one of them
C7_Witness ==
    \E r1, r2 \in Requests :
        /\ r1 # r2
        /\ Built(r1) /\ Built(r2)
        /\ domain[r1] = domain[r2]
        /\ fx[r1].fetches = 1 /\ fx[r2].fetches = 1
        /\ age[r1] = -1 /\ age[r2] = -1
        /\ response[r1].body # response[r2].body
        /\ InFile(CacheKey(domain[r2]))
        /\ file.json[CacheKey(domain[r2])].data = response[r2].body

\* C8 (cache hit): a request received while the file holds an entry for its
\* domain that is less than 24 hours old returns that entry's report verbatim
\* with status 200, leaves the file unchanged and does no crt.sh fetch, no DNS
\* query and no cache write.
C8_CacheHit ==
    [][\A r \in Requests :
          LET key == CacheKey(domain'[r])
          IN  /\ (/\ Received(r)
                  /\ InFile(key)
                  /\ now - fromisoformat(file.json[key].timestamp) < 24 * 60)
                 => /\ hit'[r]
                    /\ response'[r] = [status |-> 200, body |-> file.json[key].data]
                    /\ file' = file
              /\ hit'[r] =>
                    /\ pc'[r] = "done"
                    /\ fx'[r].fetches = 0
                    /\ fx'[r].queries = <<>>
                    /\ fx'[r].writes = 0]_vars

\* A request was answered from an entry stored some time before
C8_Witness ==
    \E r \in Requests :
        /\ hit[r]
        /\ age[r] > 0
        /\ response[r].status = 200
        /\ InFile(CacheKey(domain[r]))
        /\ response[r].body = file.json[CacheKey(domain[r])].data
        /\ Len(response[r].body.subdomains) > 0

\* C9 (cache miss and refresh): a request whose key is absent or stale runs
\* the pipeline and on success overwrites the entry with the current timestamp
\* and its report, and an entry, once written, never goes back to missing.
C9_MissRefreshNeverMissing ==
    [][/\ \A r \in Requests :
            (Received(r) /\ (~InFile(CacheKey(domain'[r])) \/ age'[r] > 24 * 60))
                => pc'[r] = "fetch"
       /\ \A r \in Requests : StoresReport(r) =>
            file'.json[CacheKey(domain[r])].data = response'[r].body
       /\ \A key \in DOMAIN file.json : key \in DOMAIN file'.json]_vars

\* C10 (freshness boundary): the entry found for a request is treated as fresh
\* exactly when now - T is strictly less than 24 hours: fresh at T + 23h59m,
\* stale at T + 24h and at T + 24h01m.
C10_FreshnessBoundary ==
    \A r \in Requests : age[r] >= 0 => (hit[r] <=> age[r] < 24 * 60)

\* One request found its entry 23h59m old and was answered from it, another
\* found its entry 24h01m old and went on to fetch
C10_Witness ==
    \E r1, r2 \in Requests :
        /\ hit[r1] /\ age[r1] = 23 * 60 + 59
        /\ ~hit[r2] /\ age[r2] = 24 * 60 + 1 /\ fx[r2].fetches = 1

\* The result of the call of extract_and_clean_subdomains made in this step
Extracted == harvest'.results[Len(harvest'.results)]

\* The step is a call of the extractor with the documented scenario
ExtractsExample ==
    /\ harvest.raw_data = ExamplePayload
    /\ harvest.domain = ExampleDomain
    /\ Extract

ExampleCleanSet ==
    {<<"w", "w", "w", ".", "e", "x", "a", "m", "p", "l", "e", ".", "c", "o", "m">>,
     <<"m", "a", "i", "l", ".", "e", "x", "a", "m", "p", "l", "e", ".", "c", "o", "m">>,
     <<"*", ".", "e", "x", "a", "m", "p", "l", "e", ".", "c", "o", "m">>}

\* C11 as stated (end-to-end scenario): for example.com and the three documented
\* entries the extraction yields total_raw = 3 and the clean set
\* {www.example.com, mail.example.com, *.example.com}.
C11_ScenarioAsStated ==
    [][ExtractsExample =>
          /\ Extracted.ok
          /\ Extracted.total_raw = 3
          /\ HostsOf(Extracted.cleaned_subdomains) = ExampleCleanSet]_vars

\* C11 amended: for example.com and the three documented entries the extraction
\* yields total_raw = 4, the number of distinct non-empty lines (the discarded
\* line with spaces included), and the clean set
\* {www.example.com, mail.example.com, *.example.com}.
C11_Scenario ==
    [][ExtractsExample =>
          /\ Extracted.ok
          /\ Extracted.total_raw = 4
          /\ Len(Extracted.cleaned_subdomains) = 3
          /\ HostsOf(Extracted.cleaned_subdomains) = ExampleCleanSet]_vars

\* The extractor has been called with the documented scenario
C11_Witness ==
    /\ harvest.raw_data = ExamplePayload
    /\ harvest.domain = ExampleDomain
    /\ Len(harvest.results) = 1
    /\ Len(harvest.results[1].cleaned_subdomains) = 3

\* The candidate map as a mapping host -> subdomain_info
AsMap(cleaned) ==
    [h \in HostsOf(cleaned) |-> CHOOSE info \in {cleaned[i] : i \in 1..Len(cleaned)} : info.host = h]

\* Two calls ended the same way: both raised, or both returned the same
\* total_raw and the same candidate map
SameResult(a, b) ==
    /\ a.ok = b.ok
    /\ a.ok => /\ a.total_raw = b.total_raw
               /\ Len(a.cleaned_subdomains) = Len(b.cleaned_subdomains)
               /\ AsMap(a.cleaned_subdomains) = AsMap(b.cleaned_subdomains)

\* C12 (idempotent, order-independent extraction): a call on the same payload
\* again, on the payload with entries or lines permuted, or with entries
\* repeated, returns the same total_raw and the same candidate map as the
\* first call.
C12_OrderIndependent ==
    \A i, j \in 1..Len(harvest.results) :
        SameResult(harvest.results[i], harvest.results[j])

\* Two calls returned the same candidates in different insertion orders
C12_Witness ==
    /\ Len(harvest.results) = 2
    /\ harvest.results[1].ok
    /\ Len(harvest.results[1].cleaned_subdomains) >= 2
    /\ harvest.results[1].cleaned_subdomains # harvest.results[2].cleaned_subdomains
    /\ harvest.results[1].total_raw > Len(harvest.results[1].cleaned_subdomains)

\* The characters of a host before its first "."
FirstLabel(h) ==
    LET dots == {i \in 1..Len(h) : h[i] = "."}
    IN  IF dots = {} THEN h
        ELSE SubSeq(h, 1, (CHOOSE i \in dots : \A j \in dots : i <= j) - 1)

\* C19 (confidence scorer): calculate_confidence returns "medium" for a host
\* starting with "*." whatever resolves is, otherwise "high" when resolves is
\* true, otherwise "low" when the first label is one or more digits and
\* nothing else, otherwise "medium"; the result is always low, medium or high.
C19_ConfidenceScorer ==
    scored.confidence # "none" =>
        /\ scored.confidence \in {"low", "medium", "high"}
        /\ scored.confidence =
              IF IsWildcardHost(scored.hostname) THEN "medium"
              ELSE IF scored.resolves THEN "high"
              ELSE IF /\ FirstLabel(scored.hostname) # <<>>
                      /\ \A i \in 1..Len(FirstLabel(scored.hostname)) :
                            FirstLabel(scored.hostname)[i] \in Digits
                   THEN "low"
              ELSE "medium"

\* The scorer was called for a wildcard host with resolves = true
C19_Witness ==
    /\ scored.confidence = "medium"
    /\ scored.resolves
    /\ IsWildcardHost(scored.hostname)
    /\ IsDigit(FirstLabel(SubSeq(scored.hostname, 3, Len(scored.hostname))))

\* C13 (input validation): a request whose domain is missing, empty, blank or
\* no hostname is answered 400 with an {error} body in the step that receives
\* it; it reads no cache, fetches nothing, issues no DNS query, writes nothing.
C13_InputValidation ==
    [][\A r \in Requests : \A value \in InvalidDomains :
          Begin(r, value) =>
              /\ response'[r].status = 400
              /\ response'[r].body.fields = {"error"}
              /\ pc'[r] = "done"
              /\ fx'[r] = [reads |-> 0, fetches |-> 0, queries |-> <<>>, writes |-> 0]
              /\ file' = file]_vars

\* A request was refused
C13_Witness ==
    \E r \in Requests :
        /\ served = 1
        /\ pc[r] = "done"
        /\ response[r].status = 400
        /\ fx[r].reads = 0

\* C14 (upstream fetch error): when the crt.sh fetch fails the request returns
\* 500 with the zeroed report (total_raw 0, total_clean 0, subdomains []) and
\* an error field, after exactly one fetch, without any DNS query, and the
\* cache file stays as it was.
C14_FetchError ==
    [][\A r \in Requests :
          FetchFail(r) =>
              /\ pc'[r] = "done"
              /\ response'[r].status = 500
              /\ response'[r].body.fields = {"domain", "total_raw", "total_clean", "subdomains", "error"}
              /\ response'[r].body.domain = domain[r]
              /\ response'[r].body.total_raw = 0
              /\ response'[r].body.total_clean = 0
              /\ response'[r].body.subdomains = <<>>
              /\ fx'[r].fetches = 1
              /\ fx'[r].queries = <<>>
              /\ fx'[r].writes = 0
              /\ file' = file]_vars

\* A request found its entry stale, the fetch failed, and the stale entry is
\* still in the file
C14_Witness ==
    \E r \in Requests :
        /\ pc[r] = "done"
        /\ response[r].status = 500
        /\ "error" \in response[r].body.fields
        /\ "subdomains" \in response[r].body.fields
        /\ age[r] >= 24 * 60
        /\ fx[r].fetches = 1
        /\ InFile(CacheKey(domain[r]))

\* The verification task of candidate i of request r ends in this step
TaskEnds(r, i) == future[r][i] = "running" /\ future'[r][i] # "running"

\* No query of the resolver behaviour succeeds
AllQueriesFail(ans) == ~(ans.ctor /\ (ans.A \/ ans.AAAA \/ ans.CNAME))

\* C15 (verification errors are recovered locally): whatever the A, AAAA and
\* CNAME queries of a candidate do, its task returns normally, the request
\* goes on and the other candidates are untouched; a candidate all of whose
\* queries failed is non-resolving; and every candidate is in the report,
\* which is returned with status 200.
C15_VerificationRecovered ==
    [][/\ \A r \in Requests : \A i \in 1..Len(future[r]) :
             TaskEnds(r, i) =>
                 /\ future'[r][i] = "done"
                 /\ pc'[r] = pc[r]
                 /\ response'[r] = response[r]
                 /\ \A j \in 1..Len(future[r]) : j # i =>
                       /\ subdomain_list'[r][j] = subdomain_list[r][j]
                       /\ future'[r][j] = future[r][j]
                 /\ \A ans \in Answers :
                       (FinishTask(r, i, ans) /\ AllQueriesFail(ans)) =>
                           /\ ~subdomain_list'[r][i].resolves
                           /\ subdomain_list'[r][i].records = <<>>
       /\ \A r \in Requests : StoresReport(r) =>
             /\ response'[r].status = 200
             /\ \A i \in 1..Len(subdomain_list[r]) :
                   \E k \in 1..Len(response'[r].body.subdomains) :
                       response'[r].body.subdomains[k] = subdomain_list[r][i]]_vars

\* A report with a candidate whose three queries all failed next to one for
\* which only some failed
C15_Witness ==
    \E r \in Requests :
        /\ Built(r)
        /\ \E i, j \in 1..Len(response[r].body.subdomains) :
              LET a == response[r].body.subdomains[i]
                  b == response[r].body.subdomains[j]
              IN  /\ ~a.resolves
                  /\ \A t \in {"A", "AAAA", "CNAME"} : InSeq(<<a.host, t>>, fx[r].queries)
                  /\ b.resolves
                  /\ b.records = <<"AAAA">>

\* The candidates of request r whose task returned
Returned(r) == {i \in 1..Len(future[r]) : future[r][i] = "done"}

\* C17 (the batch survives a task failure): a request some of whose tasks
\* raised still ends with status 200; its report holds exactly the results of
\* the tasks that returned, and it is written to the cache file.
C17_BatchSurvives ==
    \A r \in Requests :
        (pc[r] = "done" /\ Failed(r) # {}) =>
            /\ response[r].status = 200
            /\ Len(response[r].body.subdomains) = Cardinality(Returned(r))
            /\ {response[r].body.subdomains[k] : k \in 1..Len(response[r].body.subdomains)}
                  = {subdomain_list[r][i] : i \in Returned(r)}
            /\ fx[r].writes = 1
            /\ InFile(CacheKey(domain[r]))
            /\ file.json[CacheKey(domain[r])].data = response[r].body

\* One task raised and the report holds the two other candidates
C17_Witness ==
    \E r \in Requests :
        /\ Built(r)
        /\ Cardinality(Failed(r)) = 1
        /\ Len(response[r].body.subdomains) = 2
        /\ InFile(CacheKey(domain[r]))

\* C18 (report invariant): in every report returned or stored, total_clean is
\* the length of subdomains, also when tasks failed and their candidates were
\* left out, and no two entries of subdomains have the same host.
C18_ReportInvariant ==
    \A rep \in Reports :
        /\ rep.total_clean = Len(rep.subdomains)
        /\ \A i, j \in 1..Len(rep.subdomains) :
              rep.subdomains[i].host = rep.subdomains[j].host => i = j

\* A report that lacks the candidate of a failed task and differs in total_raw
\* and total_clean
C18_Witness ==
    \E r \in Requests :
        /\ Built(r)
        /\ Failed(r) # {}
        /\ response[r].body.total_clean >= 1
        /\ response[r].body.total_clean < Len(subdomain_list[r])
        /\ response[r].body.total_clean # response[r].body.total_raw

\* The query of type t succeeds under the resolver behaviour
Succeeds(ans, t) == ans.ctor /\ ans[t]

\* C20 (DNS verifier result): for a non-wildcard host, resolves is true iff at
\* least one of the A, AAAA, CNAME attempts succeeded, and records lists
\* exactly the types that succeeded, in the order A, AAAA, CNAME, each once.
C20_VerifierResult ==
    [][\A r \in Requests : \A i \in 1..Len(future[r]) : \A ans \in Answers :
          (FinishTask(r, i, ans) /\ ~IsWildcardHost(subdomain_list[r][i].host)) =>
              LET info == subdomain_list'[r][i]
              IN  /\ info.resolves <=> \E t \in {"A", "AAAA", "CNAME"} : Succeeds(ans, t)
                  /\ info.records =
                        (IF Succeeds(ans, "A") THEN <<"A">> ELSE <<>>)
                        \o (IF Succeeds(ans, "AAAA") THEN <<"AAAA">> ELSE <<>>)
                        \o (IF Succeeds(ans, "CNAME") THEN <<"CNAME">> ELSE <<>>)
                  /\ info.resolves <=> info.records # <<>>]_vars

\* A report with an entry for which A and CNAME succeeded and AAAA failed, and
\* an entry for which only CNAME succeeded
C20_Witness ==
    \E r \in Requests :
        /\ Built(r)
        /\ \E i, j \in 1..Len(response[r].body.subdomains) :
              /\ response[r].body.subdomains[i].records = <<"A", "CNAME">>
              /\ response[r].body.subdomains[j].records = <<"CNAME">>
              /\ response[r].body.subdomains[j].resolves

\* C16 (cache errors are never fatal): whatever the cache file holds and
\* whether or not saving succeeds, a request with a valid domain ends with a
\* report (status 200) or with the zeroed report of a failed crt.sh fetch,
\* never with an error response.
C16_CacheNeverFatal ==
    \A r \in Requests :
        pc[r] = "done" =>
            \/ response[r].status = 200
            \/ /\ response[r].status = 500
               /\ response[r].body.fields = ReportFields \cup {"error"}

\* The fields the smoke test expects of the subdomain endpoint
EXPECTED_FIELDS == {"domain", "total_clean", "subdomains", "normalized"}

\* C21 (response shape of the smoke test): every successful response of
\* POST /api/recon/subdomains, built or served from the cache, has the fields
\* domain, total_clean, subdomains and normalized.
C21_SmokeTestShape ==
    \A r \in Requests :
        (pc[r] = "done" /\ response[r].status = 200) =>
            EXPECTED_FIELDS \subseteq response[r].body.fields

\* The distinct non-empty trimmed lines of all name_value fields of a payload
DistinctLines(raw_data) ==
    UNION {LET lines == Split(raw_data[i].name_value, "\n")
           IN  {Strip(lines[k]) : k \in 1..Len(lines)}
              : i \in {n \in 1..Len(raw_data) : raw_data[n].shape = "dict"}}
        \ {<<>>}

\* C22 (total_raw definition): total_raw is the number of distinct non-empty
\* trimmed lines over all entries' name_value fields, counted before any
\* filtering: lines discarded as malformed or out of scope are counted, and
\* lines that differ only in case or a trailing dot are counted separately.
\* (Permuting or repeating entries and lines leaves the set of lines as it is,
\* so the payload in hand has the lines of the payload of each earlier call.)
C22_TotalRawDefinition ==
    \A i \in 1..Len(harvest.results) :
        harvest.results[i].ok =>
            harvest.results[i].total_raw = Cardinality(DistinctLines(harvest.raw_data))

\* A call on a payload with five distinct lines (and an empty one), two of
\* which collapse into one host
C22_Witness ==
    /\ Len(harvest.results) >= 1
    /\ harvest.results[Len(harvest.results)].ok
    /\ harvest.results[Len(harvest.results)].total_raw = 5
    /\ Len(harvest.results[Len(harvest.results)].cleaned_subdomains) = 4
    /\ Cardinality(DistinctLines(harvest.raw_data)) = 5

\* The tasks of request r that have not completed
Unfinished(r) == Pending(r) \cup Running(r)

\* C23 (no partial results): on a cache miss the report is built, stored and
\* returned only after every submitted task has completed, by returning or by
\* raising: no step sets the response of a request, writes the cache file for
\* it or ends it while one of its tasks is pending or running.
C23_NoPartialResults ==
    [][\A r \in Requests :
          (/\ pc[r] = "verify"
           /\ \/ response'[r] # response[r]
              \/ fx'[r].writes # fx[r].writes
              \/ file' # file
              \/ pc'[r] # "verify") =>
              /\ Unfinished(r) = {}
              /\ \A i \in 1..Len(future[r]) : future[r][i] \in {"done", "failed"}
              /\ yielded[r] = 1..Len(future[r])]_vars

\* A request returned its report after two of its three tasks raised and one
\* returned
C23_Witness ==
    \E r \in Requests :
        /\ Built(r)
        /\ Len(future[r]) = 3
        /\ Cardinality(Failed(r)) = 2
        /\ Cardinality(Returned(r)) = 1
        /\ fx[r].writes = 1

\* Both runs got the same crt.sh answer and the same DNS outcome for each host
SameOutcomes(r1, r2) ==
    /\ domain[r1] = domain[r2]
    /\ total_raw[r1] = total_raw[r2]
    /\ Len(subdomain_list[r1]) = Len(subdomain_list[r2])
    /\ AsMap(subdomain_list[r1]) = AsMap(subdomain_list[r2])

\* C24 (deterministic output): two runs of the pipeline for the same domain,
\* the same crt.sh payload and the same DNS outcome for each host return the
\* same report, in whatever order their verification tasks completed.
C24_Deterministic ==
    \A r1, r2 \in Requests :
        (Built(r1) /\ Built(r2) /\ SameOutcomes(r1, r2)) =>
            response[r1].body = response[r2].body

\* Two runs with the same outcomes whose tasks completed in different orders
C24_Witness ==
    /\ Built(1) /\ Built(2) /\ SameOutcomes(1, 2)
    /\ Len(response[1].body.subdomains) = 3
    /\ \E i \in 1..3 : response[1].body.subdomains[i].resolves
    /\ Len(fx[1].queries) = Len(fx[2].queries)
    /\ fx[1].queries # fx[2].queries

\* C25 (cache entries are never evicted): no step removes a key from the cache
\* file, and a request that stores its report leaves the entry of every other
\* key as it was: requests only add keys or overwrite the entry of their own key.
C25_NeverEvicted ==
    [][/\ DOMAIN file.json \subseteq DOMAIN file'.json
       /\ \A r \in Requests : StoresReport(r) =>
             \A key \in DOMAIN file.json \ {CacheKey(domain[r])} :
                 /\ key \in DOMAIN file'.json
                 /\ file'.json[key] = file.json[key]]_vars

\* C26 (wildcard candidates are never DNS-verified): no resolver query of any
\* type is ever issued for a host that starts with "*."; the task of such a
\* host ends with resolves = false and no records without issuing a query,
\* whatever the resolver would have answered.
C26_WildcardNeverQueried ==
    [][\A r \in Requests :
          /\ \A k \in 1..Len(fx'[r].queries) : ~IsWildcardHost(fx'[r].queries[k][1])
          /\ \A i \in 1..Len(future[r]) :
                (TaskEnds(r, i) /\ IsWildcardHost(subdomain_list[r][i].host)) =>
                    /\ fx'[r].queries = fx[r].queries
                    /\ subdomain_list'[r][i].resolves = FALSE
                    /\ subdomain_list'[r][i].records = <<>>]_vars

\* A report with a wildcard entry, built while the two other hosts were
\* queried for all three record types and one of them resolved
C26_Witness ==
    \E r \in Requests :
        /\ Built(r)
        /\ Len(fx[r].queries) = 6
        /\ \E i, j \in 1..Len(response[r].body.subdomains) :
              /\ IsWildcardHost(response[r].body.subdomains[i].host)
              /\ response[r].body.subdomains[j].records = <<"A", "AAAA", "CNAME">>

\* C27 (total_clean never exceeds total_raw): the extraction yields at most as
\* many candidates as it counted distinct raw lines, and in every report
\* returned or stored total_clean, the number of subdomains, is at most
\* total_raw.
C27_CleanAtMostRaw ==
    /\ \A r \in Requests :
          pc[r] = "verify" => Len(subdomain_list[r]) <= total_raw[r]
    /\ \A rep \in Reports :
          /\ rep.total_clean <= rep.total_raw
          /\ Len(rep.subdomains) <= rep.total_raw

\* A report built from a payload in which two lines collapsed into one host:
\* four subdomains from five raw lines
C27_Witness ==
    \E r \in Requests :
        /\ Built(r)
        /\ response[r].body.total_raw = 5
        /\ response[r].body.total_clean = 4
        /\ Len(response[r].body.subdomains) = 4

\* C28 (every cache-miss request returns exactly one response): a request that
\* missed the cache eventually ends with a response, every task it submitted
\* having been run to its end by a pool thread, whatever the number of
\* candidates; and its response is set once, in the step that ends it.
C28_EventuallyResponds ==
    /\ \A r \in Requests :
          (pc[r] \in {"fetch", "verify"}) ~>
              (pc[r] = "done" /\ response[r] # NoResponse /\ Unfinished(r) = {})
    /\ [][\A r \in Requests :
            (pc[r] \in {"fetch", "verify"} /\ response'[r] # response[r]) =>
                (response[r] = NoResponse /\ pc'[r] = "done")]_vars

\* A request with three candidates, more than the pool of the model has
\* threads, has returned its report
C28_Witness ==
    \E r \in Requests :
        /\ Built(r)
        /\ Len(future[r]) = 3
        /\ Len(future[r]) > max_workers
        /\ Cardinality(Returned(r)) + Cardinality(Failed(r)) = 3

\* The requests to /api/ paths that were let through, counted in the window
\* that ends at `reset`
AdmittedIn(reset) ==
    {i \in 1..Len(verdicts) :
        verdicts[i].api /\ verdicts[i].status = 200 /\ verdicts[i].reset = reset}

\* C29 (rate limiter): in every window of the client key, from the creation of
\* its bucket to its reset time, at most RATE_LIMIT requests to /api/ paths are
\* let through and the others are answered 429, however the requests of the
\* key interleave; a request is never counted in a window whose reset time
\* has passed.
C29_RateLimit ==
    \A i \in 1..Len(verdicts) :
        /\ Cardinality(AdmittedIn(verdicts[i].reset)) <= RATE_LIMIT
        /\ verdicts[i].now <= verdicts[i].reset

\* The step is the return of a response by ssl_check_robust
SslReturns == checker'.answered = checker.answered + 1

\* Requests that have stored their result and not yet looked at the size
Storing == {t \in Requests : checker.th[t].pc = "stored"}

\* Entries are only added by successful checks: a step that adds or changes
\* an entry is the store of a request whose certificate was fetched, for the
\* key of that request, and a step that returns 400, 422, 504 or a cached
\* result leaves the cache as it is
OnlyChecksStore ==
    /\ (\E k \in DOMAIN ssl_cache' : k \notin DOMAIN ssl_cache \/ ssl_cache'[k] # ssl_cache[k]) =>
          \E t \in Requests :
              /\ checker.th[t].pc = "connect" /\ checker'.th[t].pc = "stored"
              /\ \A k \in DOMAIN ssl_cache' :
                    (k \notin DOMAIN ssl_cache \/ ssl_cache'[k] # ssl_cache[k])
                        => k = checker.th[t].cache_key
    /\ (SslReturns /\ Storing = Storing') => ssl_cache' = ssl_cache

====
